---- MODULE Spec2Model ----
(***************************************************************************)
(* A model of package awsutils (src/awsutils.go, the current version of    *)
(* the file: lines 380-821): the S3 bucket download (DownloadBucket and    *)
(* its saveObject goroutines), the S3 bucket upload (UploadBucket driving  *)
(* the directoryIterator) and the client-dependent operations of Stack.    *)
(*                                                                         *)
(* One behaviour is one call of one entry point.  Init draws the entry     *)
(* point and its inputs; the actions are the steps of that call.  Strings  *)
(* the code inspects character by character (keys, patterns, paths) are    *)
(* sequences of one-character strings.                                     *)
(***************************************************************************)
EXTENDS Integers, Sequences, FiniteSets, TLC

VARIABLES
    op,            \* the entry point called
    client,        \* TRUE when the Bucket client / Stack.Cfn is not nil
    pc,            \* position of the calling goroutine
    ret,           \* the value the entry point returned ("none" before it returns)
    netOps,        \* remote calls made so far: records [call, arg, ok]
    fsOps,         \* file-system calls made so far: records [call, arg, ok]
    logged,        \* keys / messages written with log.Println
    excludePatten, \* DownloadBucket's excludePatten argument
    Contents,      \* result.Contents of ListObjectsV2: the listed keys
    idx,           \* index of the range loop over result.Contents
    targets,       \* listed keys that passed the exclusion test
    wg,            \* the sync.WaitGroup counter
    task,          \* position of the saveObject goroutine of each key
    written,       \* keys whose object was downloaded into its local file
    dlOpen,        \* local files held open by saveObject goroutines
    walk,          \* what filepath.Walk meets at baseDir: "ok", "missing", "unreadable"
    tree,          \* the regular files under baseDir, in walk order
    iter,          \* the directoryIterator
    object,        \* the BatchUploadObject being uploaded
    errs,          \* UploadWithIterator's errs slice
    uploaded,      \* keys whose upload succeeded
    handles,       \* files opened by the iterator and not yet closed
    opened,        \* paths passed to os.Open by the iterator, in order
    calls,         \* CloudFormation API calls made through Stack.Cfn, in order:
                   \* records [api, ok]
    templateParam, \* the template's parameters: key -> "nil" or "default"
    parameters,    \* the keys of the caller's parameters map
    missing,       \* the keys listed in findMissingParametres' error message
    cfnParameters  \* the parameter keys submitted with the create request

vars == <<op, client, pc, ret, netOps, fsOps, logged, excludePatten, Contents,
          idx, targets, wg, task, written, dlOpen, walk, tree, iter, object,
          errs, uploaded, handles, opened, calls, templateParam, parameters,
          missing, cfnParameters>>

dlVars == <<excludePatten, Contents, idx, targets, wg, task, written, dlOpen>>
upVars == <<walk, tree, iter, object, errs, uploaded, handles, opened>>
stVars == <<calls, templateParam, parameters, missing, cfnParameters>>

\* Bounds of the model.
MaxKeys == 3
MaxFiles == 2
NumParamKeys == 3

\* Parameter keys key1, key2, ... by their number.
ParamKeys == 1..NumParamKeys

StackOps == {"CreateOrUpdate", "ReadOutputs", "GetTeplateParameters",
             "CreateStack", "CreateChangeSet"}

messageClientNotDefined == "Aws Client not defined"

NoFile == <<>>

(***************************************************************************)
(* Strings as character sequences.                                         *)
(***************************************************************************)
KeyA == <<"a", ".", "t", "x", "t">>
KeyB == <<"b", ".", "t", "m", "p">>
KeyC == <<"c", "/", "d", ".", "t", "m", "p">>
Keys == {KeyA, KeyB, KeyC}

PatEmpty == <<>>
PatTmp == <<"\\", ".", "t", "m", "p", "$">>
PatNone == <<"q">>
PatBad == <<"(">>
Patterns == {PatEmpty, PatTmp, PatNone, PatBad}

BaseDir == <<"d">>
FileA == <<"d", "/", "a">>
FileB == <<"d", "/", "s", "/", "b">>
FileC == <<"d", "/", "c">>
Files == {FileA, FileB, FileC}

Range(s) == {s[i] : i \in 1..Len(s)}

\* All sequences of distinct elements of S of length at most n.
RECURSIVE DistinctSeqs(_, _)
DistinctSeqs(S, n) ==
    IF n = 0 THEN {<<>>}
    ELSE LET shorter == DistinctSeqs(S, n - 1)
         IN shorter \cup
            UNION {{Append(s, x) : x \in S \ Range(s)} :
                   s \in {t \in shorter : Len(t) = n - 1}}


(***************************************************************************)
(* regexp.Match(pattern, key): compile the pattern, then search the key.   *)
(* The fragment of the syntax the patterns above use: a literal character, *)
(* an escaped character, "." for any character, "$" as the last character  *)
(* for end of text, and "(" which must be closed.                          *)
(***************************************************************************)
RECURSIVE Compile(_, _, _)
Compile(p, i, acc) ==
    IF i > Len(p) THEN acc
    ELSE IF p[i] = "\\" THEN
        IF i = Len(p) THEN [acc EXCEPT !.err = TRUE]
        ELSE Compile(p, i + 2,
                     [acc EXCEPT !.toks = Append(@, [any |-> FALSE, c |-> p[i + 1]])])
    ELSE IF p[i] \in {"(", ")"} THEN [acc EXCEPT !.err = TRUE]
    ELSE IF p[i] = "$" /\ i = Len(p) THEN [acc EXCEPT !.anchorEnd = TRUE]
    ELSE IF p[i] = "." THEN
        Compile(p, i + 1, [acc EXCEPT !.toks = Append(@, [any |-> TRUE, c |-> "."])])
    ELSE Compile(p, i + 1, [acc EXCEPT !.toks = Append(@, [any |-> FALSE, c |-> p[i]])])

regexpCompile(p) == Compile(p, 1, [err |-> FALSE, toks |-> <<>>, anchorEnd |-> FALSE])

\* The compiled program matches key at offset i (0-based).
MatchesAt(re, key, i) ==
    /\ i + Len(re.toks) <= Len(key)
    /\ \A j \in 1..Len(re.toks) : re.toks[j].any \/ re.toks[j].c = key[i + j]
    /\ re.anchorEnd => i + Len(re.toks) = Len(key)

\* regexp.Match: (matched, err).
regexpMatch(pattern, key) ==
    LET re == regexpCompile(pattern)
    IN IF re.err THEN [matched |-> FALSE, err |-> TRUE]
       ELSE [matched |-> \E i \in 0..Len(key) : MatchesAt(re, key, i),
             err |-> FALSE]

\* strings.LastIndex(key, "/"), 1-based; 0 when there is none (Go's -1).
LastIndexSlash(key) ==
    LET at == {i \in 1..Len(key) : key[i] = "/"}
    IN IF at = {} THEN 0 ELSE CHOOSE i \in at : \A j \in at : j <= i

\* mkDirIfNeeded calls os.MkdirAll only for a key with a "/" in it.
mkDirNeeded(key) == LastIndexSlash(key) # 0
mkDirPath(key) == BaseDir \o <<"/">> \o SubSeq(key, 1, LastIndexSlash(key) - 1)

\* path.Join(baseDir, key)
fileNameOf(key) == BaseDir \o <<"/">> \o key

\* toKey: dir[len(baseDir+"/"):]
toKey(baseDir, fileName) == SubSeq(fileName, Len(baseDir) + 2, Len(fileName))

(***************************************************************************)
(* The initial states: one entry point, with its inputs.                   *)
(***************************************************************************)
EmptyIter == [filePaths |-> <<>>,
              next |-> [path |-> <<>>, key |-> <<>>, f |-> NoFile],
              err |-> FALSE]
NoObject == [Key |-> <<>>, Body |-> NoFile]

InitCommon ==
    /\ client \in BOOLEAN
    /\ pc = "entry"
    /\ ret = "none"
    /\ netOps = {}
    /\ fsOps = {}
    /\ logged = {}

InitDownloadIdle ==
    /\ excludePatten = PatEmpty
    /\ Contents = <<>>
    /\ idx = 1
    /\ targets = {}
    /\ wg = 0
    /\ task = [k \in Keys |-> "idle"]
    /\ written = {}
    /\ dlOpen = {}

InitUploadIdle ==
    /\ walk = "ok"
    /\ tree = <<>>
    /\ iter = EmptyIter
    /\ object = NoObject
    /\ errs = {}
    /\ uploaded = {}
    /\ handles = {}
    /\ opened = <<>>

InitStackIdle ==
    /\ calls = <<>>
    /\ templateParam = <<>>
    /\ parameters = {}
    /\ missing = <<>>
    /\ cfnParameters = {}

InitDownload ==
    /\ op = "DownloadBucket"
    /\ InitCommon
    /\ excludePatten \in Patterns
    /\ Contents \in DistinctSeqs(Keys, MaxKeys)
    /\ idx = 1
    /\ targets = {}
    /\ wg = 0
    /\ task = [k \in Keys |-> "idle"]
    /\ written = {}
    /\ dlOpen = {}
    /\ InitUploadIdle
    /\ InitStackIdle

InitUpload ==
    /\ op = "UploadBucket"
    /\ InitCommon
    /\ InitDownloadIdle
    /\ walk \in {"ok", "missing", "unreadable"}
    /\ tree \in IF walk = "ok" THEN DistinctSeqs(Files, MaxFiles) ELSE {<<>>}
    /\ iter = EmptyIter
    /\ object = NoObject
    /\ errs = {}
    /\ uploaded = {}
    /\ handles = {}
    /\ opened = <<>>
    /\ InitStackIdle

\* A template declares some of the keys, each with a default value or none.
Templates == UNION {[D -> {"nil", "default"}] : D \in SUBSET ParamKeys}

InitStack ==
    /\ op \in StackOps
    /\ InitCommon
    /\ InitDownloadIdle
    /\ InitUploadIdle
    /\ calls = <<>>
    /\ templateParam \in IF op \in {"CreateOrUpdate", "GetTeplateParameters"}
                         THEN Templates ELSE {<<>>}
    /\ parameters \in IF op = "ReadOutputs" THEN {{}} ELSE SUBSET ParamKeys
    /\ missing = <<>>
    /\ cfnParameters = {}

Init == InitDownload \/ InitUpload \/ InitStack

(***************************************************************************)
(* A Bucket with no client: the transfer methods return the                *)
(* "Aws Client not defined" error before doing anything                    *)
(* (src/s3_test.go, TestDownloadEmptyBucket).                              *)
(***************************************************************************)
BucketHasClient == client

BucketClientNotDefined ==
    /\ op \in {"DownloadBucket", "UploadBucket"}
    /\ pc = "entry"
    /\ ~BucketHasClient
    /\ pc' = "returned"
    /\ ret' = messageClientNotDefined
    /\ UNCHANGED <<op, client, netOps, fsOps, logged, dlVars, upVars, stVars>>

(***************************************************************************)
(* DownloadBucket                                                          *)
(***************************************************************************)
\* result, err := s3Client.ListObjectsV2(input); if err != nil { return err }
ListObjectsV2 ==
    /\ op = "DownloadBucket"
    /\ pc = "entry"
    /\ BucketHasClient
    /\ \E ok \in BOOLEAN :
        /\ netOps' = netOps \cup {[call |-> "ListObjectsV2", arg |-> <<>>, ok |-> ok]}
        /\ IF ok THEN pc' = "loop" /\ ret' = ret
                 ELSE pc' = "returned" /\ ret' = "ListObjectsV2Error"
    /\ UNCHANGED <<op, client, fsOps, logged, dlVars, upVars, stVars>>

\* if err != nil || matched { continue }
Excluded(pattern, key) ==
    LET m == regexpMatch(pattern, key)
    IN m.err \/ m.matched

InLoop ==
    /\ op = "DownloadBucket"
    /\ pc = "loop"
    /\ idx <= Len(Contents)

LoopExclude ==
    /\ InLoop
    /\ Excluded(excludePatten, Contents[idx])
    /\ idx' = idx + 1
    /\ UNCHANGED <<op, client, pc, ret, netOps, fsOps, logged, excludePatten,
                   Contents, targets, wg, task, written, dlOpen, upVars, stVars>>

\* if err = mkDirIfNeeded(baseDir, key); err != nil { continue }
LoopMkDirFail ==
    /\ InLoop
    /\ ~Excluded(excludePatten, Contents[idx])
    /\ mkDirNeeded(Contents[idx])
    /\ fsOps' = fsOps \cup
                {[call |-> "MkdirAll", arg |-> mkDirPath(Contents[idx]), ok |-> FALSE]}
    /\ targets' = targets \cup {Contents[idx]}
    /\ idx' = idx + 1
    /\ UNCHANGED <<op, client, pc, ret, netOps, logged, excludePatten,
                   Contents, wg, task, written, dlOpen, upVars, stVars>>

\* wg.Add(1)
wgAdd(n) == n + 1

\* wg.Add(1); go saveObject(bucket, baseDir, key, sess, &wg)
LoopDispatch ==
    /\ InLoop
    /\ ~Excluded(excludePatten, Contents[idx])
    /\ fsOps' = IF mkDirNeeded(Contents[idx])
                THEN fsOps \cup {[call |-> "MkdirAll",
                                  arg |-> mkDirPath(Contents[idx]), ok |-> TRUE]}
                ELSE fsOps
    /\ targets' = targets \cup {Contents[idx]}
    /\ wg' = wgAdd(wg)
    /\ task' = [task EXCEPT ![Contents[idx]] = "start"]
    /\ idx' = idx + 1
    /\ UNCHANGED <<op, client, pc, ret, netOps, logged, excludePatten,
                   Contents, written, dlOpen, upVars, stVars>>

LoopEnd ==
    /\ op = "DownloadBucket"
    /\ pc = "loop"
    /\ idx > Len(Contents)
    /\ pc' = "wait"
    /\ UNCHANGED <<op, client, ret, netOps, fsOps, logged, dlVars, upVars, stVars>>

\* Mutant: DownloadBucket returns without waiting for the goroutines.
wgWaitSkipped == TRUE

\* wg.Wait() returns when the counter is zero.
wgWaitReturns == wg = 0

\* Mutant: a download that dispatched nothing is reported as an error.
WaitAndReturnNothingIsError ==
    /\ op = "DownloadBucket"
    /\ pc = "wait"
    /\ wgWaitReturns
    /\ pc' = "returned"
    /\ ret' = IF targets = {} THEN "NothingToDownload" ELSE "nil"
    /\ UNCHANGED <<op, client, netOps, fsOps, logged, dlVars, upVars, stVars>>

\* wg.Wait(); return nil
WaitAndReturn ==
    /\ op = "DownloadBucket"
    /\ pc = "wait"
    /\ wgWaitReturns
    /\ pc' = "returned"
    /\ ret' = "nil"
    /\ UNCHANGED <<op, client, netOps, fsOps, logged, dlVars, upVars, stVars>>

\* defer wg.Done()
wgDone(n) == n - 1

\* saveObject: file, err := os.Create(fileName)
SaveCreate(k) ==
    /\ task[k] = "start"
    /\ \E ok \in BOOLEAN :
        /\ fsOps' = fsOps \cup {[call |-> "Create", arg |-> fileNameOf(k), ok |-> ok]}
        /\ IF ok
           THEN /\ task' = [task EXCEPT ![k] = "download"]
                /\ dlOpen' = dlOpen \cup {k}
                /\ UNCHANGED <<logged, wg>>
           ELSE /\ logged' = logged \cup {k}
                /\ task' = [task EXCEPT ![k] = "done"]
                /\ wg' = wgDone(wg)
                /\ UNCHANGED dlOpen
    /\ UNCHANGED <<op, client, pc, ret, netOps, excludePatten, Contents, idx,
                   targets, written, upVars, stVars>>

\* saveObject: downloader.Download(file, ...), then the deferred file.Close()
\* and wg.Done()
SaveDownload(k) ==
    /\ task[k] = "download"
    /\ \E ok \in BOOLEAN :
        /\ netOps' = netOps \cup {[call |-> "GetObject", arg |-> k, ok |-> ok]}
        /\ IF ok THEN written' = written \cup {k} /\ logged' = logged
                 ELSE logged' = logged \cup {k} /\ written' = written
    /\ dlOpen' = dlOpen \ {k}
    /\ task' = [task EXCEPT ![k] = "done"]
    /\ wg' = wgDone(wg)
    /\ UNCHANGED <<op, client, pc, ret, fsOps, excludePatten, Contents, idx,
                   targets, upVars, stVars>>

saveObject == \E k \in Keys : SaveCreate(k) \/ SaveDownload(k)

(***************************************************************************)
(* UploadBucket                                                            *)
(***************************************************************************)
\* getFiles: what filepath.Walk and the walk function leave in files.
\* A missing root: Walk calls the function with a nil info, and info.IsDir()
\* panics.  An unreadable root: the function is called with the error, which
\* it ignores, and Walk ends with no file and no error.
getFiles ==
    IF walk = "ok" THEN tree ELSE <<>>

getFilesPanics == walk = "missing"

\* iter := createIterator(baseDir, bucket)
CreateIterator ==
    /\ op = "UploadBucket"
    /\ pc = "entry"
    /\ BucketHasClient
    /\ fsOps' = fsOps \cup {[call |-> "Walk", arg |-> BaseDir, ok |-> walk = "ok"]}
    /\ IF getFilesPanics
       THEN pc' = "panicked" /\ iter' = iter
       ELSE pc' = "next" /\ iter' = [EmptyIter EXCEPT !.filePaths = getFiles]
    /\ UNCHANGED <<op, client, ret, netOps, logged, dlVars, stVars, walk, tree, object,
                   errs, uploaded, handles, opened>>

\* directoryIterator.Next with no path left
NextEmpty ==
    /\ op = "UploadBucket"
    /\ pc = "next"
    /\ Len(iter.filePaths) = 0
    /\ iter' = [iter EXCEPT !.next.f = NoFile]
    /\ pc' = "finish"
    /\ UNCHANGED <<op, client, ret, netOps, fsOps, logged, dlVars, stVars, walk, tree,
                   object, errs, uploaded, handles, opened>>

\* return true && iter.Err() == nil
NextResult(err) == ~err

\* directoryIterator.Next: f, err := os.Open(iter.filePaths[0])
NextOpen ==
    /\ op = "UploadBucket"
    /\ pc = "next"
    /\ Len(iter.filePaths) > 0
    /\ \E ok \in BOOLEAN :
        LET path == iter.filePaths[1]
            f == IF ok THEN path ELSE NoFile
        IN /\ fsOps' = fsOps \cup {[call |-> "Open", arg |-> path, ok |-> ok]}
           /\ opened' = Append(opened, path)
           /\ handles' = IF ok THEN handles \cup {path} ELSE handles
           /\ iter' = [filePaths |-> Tail(iter.filePaths),
                       next |-> [path |-> path, key |-> toKey(BaseDir, path), f |-> f],
                       err |-> ~ok]
           /\ pc' = IF NextResult(~ok) THEN "uploadObject" ELSE "finish"
    /\ UNCHANGED <<op, client, ret, netOps, logged, dlVars, stVars, walk, tree, object,
                   errs, uploaded>>

\* directoryIterator.UploadObject
UploadObject ==
    /\ op = "UploadBucket"
    /\ pc = "uploadObject"
    /\ object' = [Key |-> iter.next.key, Body |-> iter.next.f]
    /\ pc' = "upload"
    /\ UNCHANGED <<op, client, ret, netOps, fsOps, logged, dlVars, stVars, walk, tree,
                   iter, errs, uploaded, handles, opened>>

\* UploadWithIterator: u.UploadWithContext(ctx, object.Object)
Upload ==
    /\ op = "UploadBucket"
    /\ pc = "upload"
    /\ \E ok \in BOOLEAN :
        /\ netOps' = netOps \cup {[call |-> "PutObject", arg |-> object.Key, ok |-> ok]}
        /\ IF ok THEN uploaded' = uploaded \cup {object.Key} /\ errs' = errs
                 ELSE errs' = errs \cup {<<object.Key, "upload">>} /\ uploaded' = uploaded
    /\ pc' = "after"
    /\ UNCHANGED <<op, client, ret, fsOps, logged, dlVars, stVars, walk, tree, iter,
                   object, handles, opened>>

\* Mutant: After does not close the file.
AfterLeavesOpen ==
    /\ op = "UploadBucket"
    /\ pc = "after"
    /\ pc' = "next"
    /\ UNCHANGED <<op, client, ret, netOps, fsOps, logged, dlVars, stVars, walk, tree,
                   iter, object, errs, uploaded, handles, opened>>

\* UploadWithIterator: object.After(), which is f.Close()
After ==
    /\ op = "UploadBucket"
    /\ pc = "after"
    /\ \E ok \in BOOLEAN :
        /\ fsOps' = fsOps \cup {[call |-> "Close", arg |-> object.Body, ok |-> ok]}
        /\ errs' = IF ok THEN errs ELSE errs \cup {<<object.Key, "close">>}
    /\ handles' = handles \ {object.Body}
    /\ pc' = "next"
    /\ UNCHANGED <<op, client, ret, netOps, logged, dlVars, stVars, walk, tree, iter,
                   object, uploaded, opened>>

\* Mutant: UploadBucket drops the uploader's error.
UploadResultDropped(es) == "nil"

\* if err := uploader.UploadWithIterator(...); err != nil { return err }; return nil
UploadResult(es) == IF es # {} THEN "BatchedUploadIncomplete" ELSE "nil"

UploadReturn ==
    /\ op = "UploadBucket"
    /\ pc = "finish"
    /\ ret' = UploadResult(errs)
    /\ pc' = "returned"
    /\ UNCHANGED <<op, client, netOps, fsOps, logged, dlVars, upVars, stVars>>

(***************************************************************************)
(* Stack                                                                   *)
(***************************************************************************)
\* s.Cfn == nil
CfnIsNil == ~client

\* The orders in which a range over a map with key set S may visit its keys.
RangeOrders(S) == {o \in DistinctSeqs(S, Cardinality(S)) : Len(o) = Cardinality(S)}

\* findMissingParametres: the missing slice, for one iteration order of the map.
RECURSIVE missingIn(_, _, _)
missingIn(order, tp, params) ==
    IF order = <<>> THEN <<>>
    ELSE LET key == Head(order)
             rest == missingIn(Tail(order), tp, params)
         IN IF key \notin params /\ tp[key] = "nil" THEN <<key>> \o rest ELSE rest

\* convertToRequiredCfnParameter: the template's keys the caller gave a value.
convertToRequiredCfnParameter(tp, params) == {key \in DOMAIN tp : key \in params}

\* convertToCfnParameter: every key of the caller's map.
convertToCfnParameter(params) == params

StackUnchanged == UNCHANGED <<op, client, netOps, fsOps, logged, dlVars, upVars,
                              templateParam, parameters>>

\* if s.Cfn == nil { return fmt.Errorf(messageClientNotDefined) }
ReturnClientNotDefined ==
    /\ pc' = "returned"
    /\ ret' = messageClientNotDefined
    /\ UNCHANGED <<calls, missing, cfnParameters>>
    /\ StackUnchanged

\* Mutant: CreateOrUpdate without the nil check of s.Cfn.
CreateOrUpdateEntryUnchecked ==
    /\ op = "CreateOrUpdate"
    /\ pc = "entry"
    /\ pc' = "validate"
    /\ UNCHANGED <<ret, calls, missing, cfnParameters>>
    /\ StackUnchanged

CreateOrUpdateEntry ==
    /\ op = "CreateOrUpdate"
    /\ pc = "entry"
    /\ IF CfnIsNil THEN ReturnClientNotDefined
       ELSE /\ pc' = "validate"
            /\ UNCHANGED <<ret, calls, missing, cfnParameters>>
            /\ StackUnchanged

GetTeplateParametersEntry ==
    /\ op = "GetTeplateParameters"
    /\ pc = "entry"
    /\ IF CfnIsNil THEN ReturnClientNotDefined
       ELSE /\ pc' = "validate"
            /\ UNCHANGED <<ret, calls, missing, cfnParameters>>
            /\ StackUnchanged

\* getTeplateParameters: resp, err := s.Cfn.ValidateTemplate(input)
getTeplateParameters ==
    /\ op \in {"CreateOrUpdate", "GetTeplateParameters"}
    /\ pc = "validate"
    /\ \E ok \in BOOLEAN :
        /\ calls' = Append(calls, [api |-> "ValidateTemplate", ok |-> ok])
        /\ IF ~ok THEN pc' = "returned" /\ ret' = "ValidateTemplateError"
           ELSE IF op = "GetTeplateParameters" THEN pc' = "returned" /\ ret' = "nil"
           ELSE pc' = "findMissing" /\ ret' = ret
    /\ UNCHANGED <<missing, cfnParameters>>
    /\ StackUnchanged

\* if err := findMissingParametres(templateParam, parameters); err != nil { return err }
FindMissing ==
    /\ op = "CreateOrUpdate"
    /\ pc = "findMissing"
    /\ \E order \in RangeOrders(DOMAIN templateParam) :
        LET m == missingIn(order, templateParam, parameters)
        IN IF Len(m) = 0
           THEN pc' = "describe" /\ UNCHANGED <<ret, missing>>
           ELSE pc' = "returned" /\ ret' = "Missing" /\ missing' = m
    /\ UNCHANGED <<calls, cfnParameters>>
    /\ StackUnchanged

\* Mutant: the branches on the probe's error swapped.
createOrChangeSwapped(err) == IF err THEN "createChangeSet" ELSE "createStack"

\* if err != nil { err = s.createStack(...) } else { err = s.createChangeSet(...) }
createOrChange(err) == IF err THEN "createStack" ELSE "createChangeSet"

\* _, err = s.Cfn.DescribeStacks(&input): createStack on an error,
\* createChangeSet otherwise
DescribeStacks ==
    /\ op = "CreateOrUpdate"
    /\ pc = "describe"
    /\ cfnParameters' = convertToRequiredCfnParameter(templateParam, parameters)
    /\ \E err \in BOOLEAN :
        /\ calls' = Append(calls, [api |-> "DescribeStacks", ok |-> ~err])
        /\ pc' = createOrChange(err)
    /\ UNCHANGED <<ret, missing>>
    /\ StackUnchanged

CreateStackEntry ==
    /\ op = "CreateStack"
    /\ pc = "entry"
    /\ IF CfnIsNil THEN ReturnClientNotDefined
       ELSE /\ pc' = "createStack"
            /\ cfnParameters' = convertToCfnParameter(parameters)
            /\ UNCHANGED <<ret, calls, missing>>
            /\ StackUnchanged

CreateChangeSetEntry ==
    /\ op = "CreateChangeSet"
    /\ pc = "entry"
    /\ IF CfnIsNil THEN ReturnClientNotDefined
       ELSE /\ pc' = "createChangeSet"
            /\ cfnParameters' = convertToCfnParameter(parameters)
            /\ UNCHANGED <<ret, calls, missing>>
            /\ StackUnchanged

\* createStack: _, err := s.Cfn.CreateStack(input)
createStack ==
    /\ pc = "createStack"
    /\ \E ok \in BOOLEAN :
        /\ calls' = Append(calls, [api |-> "CreateStack", ok |-> ok])
        /\ IF ok THEN pc' = "wait" /\ ret' = ret
                 ELSE pc' = "returned" /\ ret' = "CreateStackError"
    /\ UNCHANGED <<missing, cfnParameters>>
    /\ StackUnchanged

\* createChangeSet: _, err := s.Cfn.CreateChangeSet(input)
createChangeSet ==
    /\ pc = "createChangeSet"
    /\ \E ok \in BOOLEAN :
        /\ calls' = Append(calls, [api |-> "CreateChangeSet", ok |-> ok])
        /\ IF ok THEN pc' = "wait" /\ ret' = ret
                 ELSE pc' = "returned" /\ ret' = "CreateChangeSetError"
    /\ UNCHANGED <<missing, cfnParameters>>
    /\ StackUnchanged

\* err = s.Cfn.WaitUntilStackCreateComplete(desInput)
WaitUntilStackCreateComplete ==
    /\ pc = "wait"
    /\ op \in StackOps
    /\ \E ok \in BOOLEAN :
        /\ calls' = Append(calls, [api |-> "WaitUntilStackCreateComplete", ok |-> ok])
        /\ ret' = IF ok THEN "nil" ELSE "WaitError"
    /\ pc' = "returned"
    /\ UNCHANGED <<missing, cfnParameters>>
    /\ StackUnchanged

ReadOutputs ==
    /\ op = "ReadOutputs"
    /\ pc = "entry"
    /\ IF CfnIsNil THEN ReturnClientNotDefined
       ELSE /\ \E ok \in BOOLEAN :
                /\ calls' = Append(calls, [api |-> "DescribeStacks", ok |-> ok])
                /\ ret' = IF ok THEN "nil" ELSE "DescribeStacksError"
            /\ pc' = "returned"
            /\ UNCHANGED <<missing, cfnParameters>>
            /\ StackUnchanged

Next ==
    \/ BucketClientNotDefined
    \/ ListObjectsV2
    \/ LoopExclude
    \/ LoopMkDirFail
    \/ LoopDispatch
    \/ LoopEnd
    \/ WaitAndReturn
    \/ saveObject
    \/ CreateIterator
    \/ NextEmpty
    \/ NextOpen
    \/ UploadObject
    \/ Upload
    \/ After
    \/ UploadReturn
    \/ CreateOrUpdateEntry
    \/ GetTeplateParametersEntry
    \/ getTeplateParameters
    \/ FindMissing
    \/ DescribeStacks
    \/ CreateStackEntry
    \/ CreateChangeSetEntry
    \/ createStack
    \/ createChangeSet
    \/ WaitUntilStackCreateComplete
    \/ ReadOutputs

Spec == Init /\ [][Next]_vars

(***************************************************************************)
(* Vocabulary of the properties.                                           *)
(***************************************************************************)
Returned == pc = "returned"
Failed(ops, call) == {r.arg : r \in {x \in ops : x.call = call /\ ~x.ok}}
Succeeded(ops, call) == {r.arg : r \in {x \in ops : x.call = call /\ x.ok}}

ListingSucceeded == Succeeded(netOps, "ListObjectsV2") # {}
ListingFailed == Failed(netOps, "ListObjectsV2") # {}

\* The download targets that failed locally, and those that failed remotely.
MkdirFailedKeys == {k \in targets : mkDirNeeded(k) /\ mkDirPath(k) \in Failed(fsOps, "MkdirAll")}
CreateFailedKeys == {k \in targets : fileNameOf(k) \in Failed(fsOps, "Create")}
LocalFailedKeys == MkdirFailedKeys \cup CreateFailedKeys
RemoteFailedKeys == targets \cap Failed(netOps, "GetObject")

DownloadDone == op = "DownloadBucket" /\ Returned /\ ListingSucceeded
UploadDone == op = "UploadBucket" /\ Returned /\ client

\* A task that was dispatched and has not finished.
Running(k) == task[k] \in {"start", "download"}

\* C1: DownloadBucket returns only after every saveObject goroutine it
\* dispatched has finished: when the call has returned, no task is running.
C1_JoinAll ==
    (op = "DownloadBucket" /\ Returned) => \A k \in Keys : ~Running(k)

C1_Witness ==
    /\ op = "DownloadBucket" /\ Returned /\ ret = "nil"
    /\ Cardinality({k \in Keys : task[k] = "done"}) >= 2
    /\ logged # {}
    /\ written # {}

\* C2: when exactly one target fails locally (MkdirAll or os.Create fails)
\* and nothing else fails, every other target was dispatched and written, the
\* failing target is the only one reported failed and all others succeeded.
C2_OneLocalFailure ==
    (DownloadDone /\ Cardinality(LocalFailedKeys) = 1 /\ RemoteFailedKeys = {}) =>
        /\ \A k \in targets \ LocalFailedKeys : task[k] = "done" /\ k \in written
        /\ logged = LocalFailedKeys
        /\ written = targets \ LocalFailedKeys

\* C3: in an upload batch a file that cannot be opened fails only that
\* target: every enumerated file is still opened, and every file that was
\* opened is submitted for upload.
C3_OpenFailureIsLocal ==
    (UploadDone /\ walk = "ok") =>
        /\ Range(opened) = Range(tree)
        /\ \A path \in Succeeded(fsOps, "Open") :
               \E r \in netOps : r.call = "PutObject" /\ r.arg = toKey(BaseDir, path)

\* C4: with a pattern that compiles, a listed key is dropped exactly when the
\* pattern is non-empty and matches the key; all the others are transferred.
C4_ExcludeIffMatch ==
    (DownloadDone /\ ~regexpCompile(excludePatten).err) =>
        targets = {k \in Range(Contents) :
                     ~(excludePatten # <<>> /\ regexpMatch(excludePatten, k).matched)}

\* C5: with a pattern that does not compile no key is excluded: every listed
\* key is a target of the download.
C5_InvalidPatternKeepsAll ==
    (DownloadDone /\ regexpCompile(excludePatten).err) => targets = Range(Contents)

C7_AllAccounted ==
    DownloadDone =>
        Cardinality(written) + Cardinality(logged) = Cardinality(targets)

\* C8 as stated: once enumeration succeeded, DownloadBucket and UploadBucket
\* return no error, whatever happened to the individual targets.
C8_NeverTopLevelError ==
    (DownloadDone \/ (UploadDone /\ walk = "ok")) => ret = "nil"

\* C8, amended: DownloadBucket returns nil once the listing succeeded,
\* whatever happened to the targets; UploadBucket returns the uploader's batch
\* error exactly when the upload or the close of a submitted target failed.
C8_TopLevelError ==
    /\ DownloadDone => ret = "nil"
    /\ UploadDone =>
           (ret # "nil" <=> (Failed(netOps, "PutObject") # {} \/ Failed(fsOps, "Close") # {}))

C8_Witness ==
    /\ UploadDone
    /\ ret = "BatchedUploadIncomplete"
    /\ Failed(netOps, "PutObject") # {}
    /\ uploaded # {}

\* C9: when enumeration fails outright (the listing call errors, or the walk
\* of the base directory fails) the entry point returns an error and
\* attempts no transfer.
C9_EnumerationFailureIsFatal ==
    /\ (op = "DownloadBucket" /\ ListingFailed) =>
           /\ Returned /\ ret = "ListObjectsV2Error"
           /\ targets = {} /\ \A k \in Keys : task[k] = "idle"
    /\ (op = "UploadBucket" /\ client /\ walk # "ok" /\ pc # "entry") =>
           /\ pc # "panicked"
           /\ Returned => ret \notin {"nil", "none"}
           /\ netOps = {}

\* C10: a download with a client against an empty listing returns nil with
\* nothing succeeded, nothing failed, no local file operation and no task.
C10_EmptyListing ==
    (op = "DownloadBucket" /\ client /\ Contents = <<>> /\ ListingSucceeded) =>
        /\ fsOps = {} /\ targets = {} /\ written = {} /\ logged = {} /\ dlOpen = {}
        /\ \A k \in Keys : task[k] = "idle"
        /\ Returned => ret = "nil"

C10_Witness ==
    /\ op = "DownloadBucket" /\ client /\ Contents = <<>> /\ ListingSucceeded
    /\ Returned /\ ret = "nil"

\* The template parameters with no default value and no caller value.
MissingKeys == {key \in DOMAIN templateParam :
                  templateParam[key] = "nil" /\ key \notin parameters}

\* The keys of S in ascending order.
RECURSIVE Ascending(_)
Ascending(S) ==
    IF S = {} THEN <<>>
    ELSE LET least == CHOOSE x \in S : \A y \in S : x <= y
         IN <<least>> \o Ascending(S \ {least})

\* CreateOrUpdate has called findMissingParametres.
FindMissingCalled ==
    /\ op = "CreateOrUpdate"
    /\ Len(calls) >= 1 /\ calls[1].ok
    /\ pc # "findMissing"

\* C11: findMissingParametres returns nil exactly when no template parameter
\* without a default lacks a caller value; otherwise its error lists exactly
\* those parameters, in ascending key order, the same on every run.
C11_MissingMessage ==
    FindMissingCalled =>
        IF MissingKeys = {} THEN ret # "Missing"
        ELSE Returned /\ ret = "Missing" /\ missing = Ascending(MissingKeys)

\* The existence probe was made and returned no error.
ProbeFoundStack == Len(calls) >= 2 /\ calls[2].ok

\* The calls CreateOrUpdate makes, in order, given the probe's outcome.
CreateOrUpdateOrder(probeOk) ==
    <<"ValidateTemplate", "DescribeStacks",
      IF probeOk THEN "CreateChangeSet" ELSE "CreateStack",
      "WaitUntilStackCreateComplete">>

\* C12: CreateOrUpdate validates the template, checks for missing parameters,
\* probes, then submits exactly one of create-stack (probe failed) or
\* create-change-set (probe succeeded) and waits.  A failed validation or a
\* missing parameter is returned with no probe and no submission; otherwise
\* the result is that of the submitted request and of its wait.
C12_CreateOrUpdateOrder ==
    (op = "CreateOrUpdate" /\ client) =>
        /\ Len(calls) <= 4
        /\ \A i \in 1..Len(calls) :
               calls[i].api = CreateOrUpdateOrder(ProbeFoundStack)[i]
        /\ Len(calls) >= 2 => calls[1].ok /\ MissingKeys = {}
        /\ Len(calls) = 4 => calls[3].ok
        /\ Returned =>
               IF ~calls[1].ok THEN Len(calls) = 1 /\ ret = "ValidateTemplateError"
               ELSE IF MissingKeys # {} THEN Len(calls) = 1 /\ ret = "Missing"
               ELSE IF Len(calls) = 3
                    THEN /\ ~calls[3].ok
                         /\ ret = IF calls[2].ok THEN "CreateChangeSetError"
                                                 ELSE "CreateStackError"
               ELSE /\ Len(calls) = 4
                    /\ ret = IF calls[4].ok THEN "nil" ELSE "WaitError"

C12_Witness ==
    /\ op = "CreateOrUpdate" /\ client /\ Returned /\ ret = "nil"
    /\ Len(calls) = 4
    /\ ~calls[2].ok
    /\ calls[3].api = "CreateStack"
    /\ cfnParameters # {}

\* C13: the iterator acquires files one at a time: the files it opened are a
\* prefix of the enumeration (each once, in order), at most one handle it
\* opened is open at any moment, and none is open when the batch has ended.
C13_OneHandleAtATime ==
    (op = "UploadBucket") =>
        /\ Len(opened) <= Len(tree)
        /\ opened = SubSeq(tree, 1, Len(opened))
        /\ Cardinality(handles) <= 1
        /\ handles \subseteq Succeeded(fsOps, "Open")
        /\ pc \in {"next", "finish", "returned"} => handles = {}

C13_Witness ==
    /\ op = "UploadBucket" /\ Returned
    /\ Len(opened) = 2
    /\ Failed(netOps, "PutObject") # {}
    /\ Succeeded(netOps, "PutObject") # {}
    /\ handles = {}

====
